---- MODULE Spec2Model ----
(***************************************************************************)
(* Model of the Unity FBX exporter add-on (src/__init__.py): the module    *)
(* globals, the helpers unhide_collections, unhide_objects,                *)
(* make_single_user_data, apply_object_modifiers, reset_parent_inverse,    *)
(* apply_rotation, fix_object and the driver export_unity_fbx, run step by *)
(* step against a model of the host scene graph (bpy).                     *)
(*                                                                         *)
(* Host scene graph.  Objects are the registry indices 1..NObj (registry   *)
(* order = index order).  A 4x4 affine matrix is a record [r, t]: r the    *)
(* 3x3 linear part (rows), t the translation column; entries are integers  *)
(* and the linear parts are signed permutation matrices (rotations by      *)
(* multiples of 90 degrees, mirror scales), so products and inverses are   *)
(* exact.  matrix_world is derived: parent world @ parent inverse @ basis. *)
(* Layer collections are the indices 1..3, 1 the view layer's root.        *)
(***************************************************************************)
EXTENDS Integers, Sequences, FiniteSets, TLC

\* Number of objects in the registry (bpy.data.objects).
NObj == 4

Obj == 1..NObj

\* Layer collections of the view layer; MasterCol is view_layer.layer_collection.
Col == {1, 2, 3}
MasterCol == CHOOSE c \in Col : \A d \in Col : c <= d

(***************************************************************************)
(* Matrix algebra (mathutils.Matrix)                                       *)
(***************************************************************************)
Ix == {1, 2, 3}

Mat(a, b, c, t) == [r |-> <<a, b, c>>, t |-> t]

\* Matrix.identity()
Identity == Mat(<<1, 0, 0>>, <<0, 1, 0>>, <<0, 0, 1>>, <<0, 0, 0>>)

\* cos and sin of a multiple of 90 degrees
Cos90(deg) == CASE deg % 360 = 0 -> 1 [] deg % 360 = 180 -> -1 [] OTHER -> 0
Sin90(deg) == CASE deg % 360 = 90 -> 1 [] deg % 360 = 270 -> -1 [] OTHER -> 0

\* mathutils.Matrix.Rotation(math.radians(deg), 4, 'X')
RotationX(deg) ==
    Mat(<<1, 0, 0>>,
        <<0, Cos90(deg), -Sin90(deg)>>,
        <<0, Sin90(deg), Cos90(deg)>>,
        <<0, 0, 0>>)

\* A @ B
MulEntry(A, B, i, j) == A.r[i][1] * B.r[1][j] + A.r[i][2] * B.r[2][j] + A.r[i][3] * B.r[3][j]
MulRow(A, B, i) == <<MulEntry(A, B, i, 1), MulEntry(A, B, i, 2), MulEntry(A, B, i, 3)>>
MulTrans(A, B, i) == A.r[i][1] * B.t[1] + A.r[i][2] * B.t[2] + A.r[i][3] * B.t[3] + A.t[i]
MatMul(A, B) ==
    [r |-> <<MulRow(A, B, 1), MulRow(A, B, 2), MulRow(A, B, 3)>>,
     t |-> <<MulTrans(A, B, 1), MulTrans(A, B, 2), MulTrans(A, B, 3)>>]

\* A.inverted(): the linear part is orthogonal, its inverse is its transpose
InvTrans(A, i) == -(A.r[1][i] * A.t[1] + A.r[2][i] * A.t[2] + A.r[3][i] * A.t[3])
Inverted(A) ==
    [r |-> <<<<A.r[1][1], A.r[2][1], A.r[3][1]>>,
             <<A.r[1][2], A.r[2][2], A.r[3][2]>>,
             <<A.r[1][3], A.r[2][3], A.r[3][3]>>>>,
     t |-> <<InvTrans(A, 1), InvTrans(A, 2), InvTrans(A, 3)>>]

Det3(m) ==
    m[1][1] * (m[2][2] * m[3][3] - m[2][3] * m[3][2])
    - m[1][2] * (m[2][1] * m[3][3] - m[2][3] * m[3][1])
    + m[1][3] * (m[2][1] * m[3][2] - m[2][2] * m[3][1])

\* Decomposition of a matrix into location, rotation and scale as the host does
\* it: a negative determinant negates the rotation matrix and the scale.
SignOf(A) == IF Det3(A.r) < 0 THEN -1 ELSE 1
SignedRow(A, i) == <<SignOf(A) * A.r[i][1], SignOf(A) * A.r[i][2], SignOf(A) * A.r[i][3]>>
RotationPart(A) ==
    [r |-> <<SignedRow(A, 1), SignedRow(A, 2), SignedRow(A, 3)>>, t |-> <<0, 0, 0>>]
\* location and scale kept, rotation cleared
WithoutRotation(A) ==
    [r |-> <<<<SignOf(A), 0, 0>>, <<0, SignOf(A), 0>>, <<0, 0, SignOf(A)>>>>, t |-> A.t]

(***************************************************************************)
(* State                                                                   *)
(***************************************************************************)
VARIABLES
    topo,                   \* the scene's fixed topology (never written by the add-on)
    scene,                  \* the scene's mutable state
    undo,                   \* the host's undo stack
    pc,                     \* position of the run of export_unity_fbx
    kwargs,                 \* the caller's option map (**kwargs)
    shared_data,            \* module globals, lines 22..30
    hidden_collections,
    hidden_objects,
    disabled_collections,
    disabled_objects,
    root_objects,           \* locals of export_unity_fbx
    selection,
    ri,                     \* position of "for ob in root_objects"
    stack,                  \* call stack of fix_object: frames [ob, k, mat_original]
    fbx,                    \* calls of bpy.ops.export_scene.fbx: the params of each
    result,                 \* what the call returned, or that it raised
    hist                    \* history of the run, for stating the properties

vars == <<topo, scene, undo, pc, kwargs, shared_data, hidden_collections, hidden_objects,
          disabled_collections, disabled_objects, root_objects, selection, ri, stack,
          fbx, result, hist>>

globals == <<shared_data, hidden_collections, hidden_objects, disabled_collections,
             disabled_objects>>

\* bpy.data.objects, in registry order
Registry == [i \in 1..NObj |-> i]

\* Kinds accepted as hierarchy roots
RootKinds == {"EMPTY", "MESH", "ARMATURE", "FONT", "CURVE", "SURFACE"}

\* Kinds that bpy.ops.object.convert(target='MESH') turns into meshes
GeometryKinds == {"MESH", "CURVE", "SURFACE", "FONT"}

(***************************************************************************)
(* Host accessors                                                          *)
(***************************************************************************)
\* ob.children: the objects whose parent is ob, in registry order
Children(ob) == SelectSeq(Registry, LAMBDA c : topo.parent[c] = ob)

\* col.children of a layer collection, in index order
ColRegistry == <<1, 2, 3>>
ColChildren(c) == SelectSeq(ColRegistry, LAMBDA i : topo.lcParent[i] = c)

\* ob.name in bpy.context.view_layer.objects: the object's collection is not
\* excluded (exclusion is not inherited by child collections)
InViewLayer(ob) == ~topo.exclude[topo.col[ob]]

\* A layer collection and its ancestors
RECURSIVE ColChain(_)
ColChain(c) == IF c = 0 THEN {} ELSE {c} \cup ColChain(topo.lcParent[c])

\* An object is visible (and selectable) when it is in the view layer and neither
\* it nor a collection above it is hidden or disabled in the viewport
Visible(sc, ob) ==
    /\ InViewLayer(ob)
    /\ ~sc.hide[ob]
    /\ ~sc.hide_viewport[ob]
    /\ \A c \in ColChain(topo.col[ob]) : ~sc.lcHide[c] /\ ~sc.colHide[c]

\* The host clears the select flag of objects that are not selectable
SyncSelection(sc) == [sc EXCEPT !.sel = {o \in @ : Visible(sc, o)}]

\* ob.matrix_world
RECURSIVE World(_, _)
World(sc, ob) ==
    IF topo.parent[ob] = 0 THEN sc.basis[ob]
    ELSE MatMul(MatMul(World(sc, topo.parent[ob]), sc.pinv[ob]), sc.basis[ob])

\* ob.matrix_local (read)
Local(sc, ob) ==
    IF topo.parent[ob] = 0 THEN sc.basis[ob] ELSE MatMul(sc.pinv[ob], sc.basis[ob])

\* ob.matrix_local = m: the host undoes the parent inverse before storing the basis
SetLocal(sc, ob, m) ==
    [sc EXCEPT !.basis[ob] =
        IF topo.parent[ob] = 0 THEN m ELSE MatMul(Inverted(sc.pinv[ob]), m)]

\* ob.data.users: the objects that use the payload, plus its fake user
ObjectUsers(sc, d) == {u \in Obj : sc.data[u] = d}
Users(sc, d) == Cardinality(ObjectUsers(sc, d)) + (IF sc.mesh[d].fake THEN 1 ELSE 0)

\* bpy.ops.object.select_all(action='DESELECT')
DeselectAll(sc) == [sc EXCEPT !.sel = {}]

\* ob.select_set(True): only a visible object takes the flag
SelectSet(sc, ob) == IF Visible(sc, ob) THEN [sc EXCEPT !.sel = @ \cup {ob}] ELSE sc

\* bpy.ops.ed.undo_push: the present state becomes the newest step
UndoPush(u, sc) == [steps |-> SubSeq(u.steps, 1, u.pos) \o <<sc>>, pos |-> u.pos + 1]

\* bpy.ops.ed.undo: one step back; the scene is loaded from that step
UndoPos(u) == IF u.pos > 1 THEN u.pos - 1 ELSE u.pos
UndoScene(u, sc) == IF u.pos > 1 THEN u.steps[u.pos - 1] ELSE sc

(***************************************************************************)
(* The add-on's helpers                                                     *)
(***************************************************************************)
InSeq(x, q) == \E i \in 1..Len(q) : q[i] = x

\* unhide_collections(col): st is [sc, hidden, disabled], the scene and the two
\* global lists as the recursion goes
RECURSIVE unhide_collections(_, _), unhide_children(_, _, _)
unhide_collections(st, col) ==
    IF topo.exclude[col] THEN st
    ELSE LET kids == ColChildren(col)
             hidden == SelectSeq(kids, LAMBDA item :
                           ~topo.exclude[item] /\ st.sc.lcHide[item])
             sc1 == [st.sc EXCEPT !.lcHide =
                        [c \in Col |-> IF InSeq(c, hidden) THEN FALSE ELSE @[c]]]
             disabled == SelectSeq(kids, LAMBDA item :
                             ~topo.exclude[item] /\ sc1.colHide[item])
             sc2 == [sc1 EXCEPT !.colHide =
                        [c \in Col |-> IF InSeq(c, disabled) THEN FALSE ELSE @[c]]]
         IN  unhide_children([sc |-> sc2,
                              hidden |-> st.hidden \o hidden,
                              disabled |-> st.disabled \o disabled], kids, 1)
unhide_children(st, kids, i) ==
    IF i > Len(kids) THEN st
    ELSE unhide_children(unhide_collections(st, kids[i]), kids, i + 1)

\* unhide_objects(): st is [sc, hidden, disabled]; i the position in view_layer_objects
RECURSIVE unhide_objects(_, _, _)
unhide_objects(st, view_layer_objects, i) ==
    IF i > Len(view_layer_objects) THEN st
    ELSE LET ob == view_layer_objects[i]
             h == st.sc.hide[ob]
             d == st.sc.hide_viewport[ob]
         IN  unhide_objects(
                 [sc |-> [st.sc EXCEPT !.hide[ob] = FALSE, !.hide_viewport[ob] = FALSE],
                  hidden |-> IF h THEN Append(st.hidden, ob) ELSE st.hidden,
                  disabled |-> IF d THEN Append(st.disabled, ob) ELSE st.disabled],
                 view_layer_objects, i + 1)

\* len([mod for mod in user.modifiers if mod.show_viewport])
EnabledModifiers(sc, user) == Len(SelectSeq(sc.mods[user], LAMBDA mod : mod.show_viewport))

\* the census over the users of a payload, in registry order
RECURSIVE ModifierCensus(_, _, _)
ModifierCensus(sc, users, i) ==
    IF i > NObj THEN 0
    ELSE (IF i \in users THEN EnabledModifiers(sc, i) ELSE 0) + ModifierCensus(sc, users, i + 1)

\* ob.data = ob.data.copy(): a new payload with the same content
CopyData(sc, ob) ==
    [sc EXCEPT !.mesh = Append(@, @[sc.data[ob]]), !.data[ob] = Len(sc.mesh) + 1]

\* whether line 93 records the payload of ob for the restoration
RecordsShared(sc, ob, users) ==
    sc.kind[ob] = "MESH" /\ ModifierCensus(sc, users, 1) = 0

\* the copy of line 96 made for MESH objects only
NeedsCopyMeshOnly(sc, ob) ==
    /\ sc.data[ob] # 0
    /\ sc.kind[ob] = "MESH"
    /\ Users(sc, sc.data[ob]) > 1
    /\ Cardinality(ObjectUsers(sc, sc.data[ob])) > 1

\* whether make_single_user_data gives ob a private copy (lines 80..83)
NeedsCopy(sc, ob) ==
    /\ sc.data[ob] # 0
    /\ Users(sc, sc.data[ob]) > 1
    /\ Cardinality(ObjectUsers(sc, sc.data[ob])) > 1

\* make_single_user_data(): st is [sc, shared]; i the position in bpy.data.objects
RECURSIVE make_single_user_data(_, _)
make_single_user_data(st, i) ==
    IF i > NObj THEN st
    ELSE LET ob == Registry[i]
             users == ObjectUsers(st.sc, st.sc.data[ob])
         IN  IF NeedsCopy(st.sc, ob)
             THEN make_single_user_data(
                      [sc |-> CopyData(st.sc, ob),
                       shared |-> IF RecordsShared(st.sc, ob, users)
                                  THEN Append(st.shared, <<ob, st.sc.data[ob]>>)
                                  ELSE st.shared], i + 1)
             ELSE make_single_user_data(st, i + 1)

\* the bypass of lines 105..107 for enabled ARMATURE modifiers only
BypassEnabledArmature(sc, ob) ==
    \E i \in 1..Len(sc.mods[ob]) :
        sc.mods[ob][i].type = "ARMATURE" /\ sc.mods[ob][i].show_viewport

\* apply_object_modifiers: the objects line 109 selects
BypassModifiers(sc, ob) == \E i \in 1..Len(sc.mods[ob]) : sc.mods[ob][i].type = "ARMATURE"
ToSelect(sc) == {ob \in Obj : InViewLayer(ob) /\ ~BypassModifiers(sc, ob)}

RECURSIVE SelectEach(_, _, _)
SelectEach(sc, obs, i) ==
    IF i > NObj THEN sc
    ELSE SelectEach(IF i \in obs THEN SelectSet(sc, i) ELSE sc, obs, i + 1)

\* bpy.ops.object.convert.poll(): an active object with data that is selected
ConvertPoll(sc) ==
    topo.active # 0 /\ topo.active \in sc.sel /\ sc.data[topo.active] # 0

\* bpy.ops.object.convert(target='MESH'): every selected geometry object becomes
\* a mesh whose payload holds the result of its modifier stack
Convert(sc) ==
    LET hit == {ob \in sc.sel : sc.kind[ob] \in GeometryKinds}
    IN  [sc EXCEPT
            !.kind = [ob \in Obj |-> IF ob \in hit THEN "MESH" ELSE @[ob]],
            !.mods = [ob \in Obj |-> IF ob \in hit THEN <<>> ELSE @[ob]],
            !.mesh = [d \in DOMAIN @ |->
                        IF \E ob \in hit : sc.data[ob] = d
                        THEN [@[d] EXCEPT !.baked = TRUE] ELSE @[d]]]

apply_object_modifiers(sc) ==
    LET sc1 == SelectEach(DeselectAll(sc), ToSelect(sc), 1)
    IN  IF ConvertPoll(sc1) THEN Convert(sc1) ELSE sc1

\* reset_parent_inverse without line 121: the parent inverse is cleared and the
\* basis is left as it was
ResetKeepsBasis(sc, ob) ==
    IF topo.parent[ob] # 0 THEN [sc EXCEPT !.pinv[ob] = Identity] ELSE sc

\* reset_parent_inverse(ob)
reset_parent_inverse(sc, ob) ==
    IF topo.parent[ob] # 0
    THEN LET mat_world == World(sc, ob)
         IN  [sc EXCEPT !.pinv[ob] = Identity,
                        !.basis[ob] = MatMul(Inverted(World(sc, topo.parent[ob])), mat_world)]
    ELSE sc

\* bpy.ops.object.transform_apply(location=False, rotation=True, scale=False) raises
\* when the payload of a selected object has more than one real user
ApplyRaises(sc) ==
    \E ob \in sc.sel : sc.data[ob] # 0 /\ Cardinality(ObjectUsers(sc, sc.data[ob])) > 1

\* transform_apply on one selected object: the rotation of its basis goes into its
\* payload, the basis keeps location and scale, and the host re-parents the
\* object's children so that they stay where they are
TransformApplyOne(sc, ob) ==
    LET rot == RotationPart(sc.basis[ob])
        sc1 == [sc EXCEPT
                   !.basis[ob] = WithoutRotation(@),
                   !.mesh = IF sc.data[ob] = 0 THEN @
                            ELSE [@ EXCEPT ![sc.data[ob]].orient = MatMul(rot, @)]]
    IN  [sc1 EXCEPT
            !.basis = [c \in Obj |-> IF topo.parent[c] = ob THEN World(sc, c) ELSE @[c]],
            !.pinv = [c \in Obj |-> IF topo.parent[c] = ob
                                    THEN Inverted(World(sc1, ob)) ELSE @[c]]]

RECURSIVE TransformApply(_, _)
TransformApply(sc, i) ==
    IF i > NObj THEN sc
    ELSE TransformApply(IF i \in sc.sel THEN TransformApplyOne(sc, i) ELSE sc, i + 1)

\* apply_rotation(ob), when the host operator does not raise
apply_rotation(sc, ob) == TransformApply(SelectSet(DeselectAll(sc), ob), 1)

\* lines 201..202: for item in shared_data: bpy.data.objects[item].data = shared_data[item]
RECURSIVE RestoreShared(_, _, _)
RestoreShared(sc, shared, i) ==
    IF i > Len(shared) THEN sc
    ELSE RestoreShared([sc EXCEPT !.data[shared[i][1]] = shared[i][2]], shared, i + 1)

\* lines 213..217 left out: only the objects are hidden or disabled again
RestoreVisibilityObjectsOnly(sc) ==
    SyncSelection(
        [sc EXCEPT
            !.hide = [ob \in Obj |-> IF InSeq(ob, hidden_objects) THEN TRUE ELSE @[ob]],
            !.hide_viewport =
                [ob \in Obj |-> IF InSeq(ob, disabled_objects) THEN TRUE ELSE @[ob]]])

\* lines 208..217: every recorded object and collection is hidden or disabled again
RestoreVisibility(sc) ==
    SyncSelection(
        [sc EXCEPT
            !.hide = [ob \in Obj |-> IF InSeq(ob, hidden_objects) THEN TRUE ELSE @[ob]],
            !.hide_viewport =
                [ob \in Obj |-> IF InSeq(ob, disabled_objects) THEN TRUE ELSE @[ob]],
            !.lcHide = [c \in Col |-> IF InSeq(c, hidden_collections) THEN TRUE ELSE @[c]],
            !.colHide =
                [c \in Col |-> IF InSeq(c, disabled_collections) THEN TRUE ELSE @[c]]])

\* lines 220..222
RestoreSelection(sc) ==
    SelectEach(DeselectAll(sc), {selection[i] : i \in 1..Len(selection)}, 1)

\* the overlay the other way round: the defaults win over the caller's options
ParamsDefaultsWin(filepath, kw) ==
    [key \in {"filepath", "apply_scale_options"} \cup DOMAIN kw |->
        IF key = "filepath" THEN filepath
        ELSE IF key = "apply_scale_options" THEN "FBX_SCALE_UNITS"
        ELSE kw[key]]

\* lines 226..231: the defaults overlaid by the caller's options
Defaults(filepath) == [filepath |-> filepath, apply_scale_options |-> "FBX_SCALE_UNITS"]
Params(filepath, kw) ==
    [key \in DOMAIN Defaults(filepath) \cup DOMAIN kw |->
        IF key \in DOMAIN kw THEN kw[key] ELSE Defaults(filepath)[key]]

\* the two undo_push without the undo between them
RollBackWithoutUndo(u, sc) == [scene |-> sc, undo |-> UndoPush(UndoPush(u, sc), sc)]

\* lines 237..239 and 247..249: undo_push, undo, undo_push
RollBack(u, sc) ==
    LET u1 == UndoPush(u, sc)
        back == UndoScene(u1, sc)
        u2 == [u1 EXCEPT !.pos = UndoPos(u1)]
    IN  [scene |-> back, undo |-> UndoPush(u2, back)]

(***************************************************************************)
(* export_unity_fbx, step by step                                          *)
(***************************************************************************)
\* The steps inside the try block (lines 194..234)
Protected == {"fix_root", "fix_object", "substitute", "apply_rotation", "recompose",
              "fix_children", "restore_data", "restore_visibility", "restore_selection",
              "export_fbx"}

\* The steps between the first undo_push and the try block (lines 185..192)
Unprotected == {"unhide_collections", "unhide_objects", "make_single_user_data",
                "apply_object_modifiers"}

Top == stack[Len(stack)]

\* lines 163..182: the roots, the undo checkpoint, the globals reset, the selection
Start ==
    /\ pc = "idle"
    /\ root_objects' = SelectSeq(Registry, LAMBDA item :
                           scene.kind[item] \in RootKinds /\ topo.parent[item] = 0)
    /\ undo' = UndoPush(undo, scene)
    /\ shared_data' = <<>>
    /\ hidden_collections' = <<>>
    /\ hidden_objects' = <<>>
    /\ disabled_collections' = <<>>
    /\ disabled_objects' = <<>>
    /\ selection' = SelectSeq(Registry, LAMBDA ob : ob \in scene.sel)
    /\ hist' = [hist EXCEPT !.pre = scene]
    /\ pc' = "unhide_collections"
    /\ UNCHANGED <<topo, scene, kwargs, ri, stack, fbx, result>>

\* line 185
UnhideCollections ==
    /\ pc = "unhide_collections"
    /\ LET st == unhide_collections(
                     [sc |-> scene, hidden |-> hidden_collections,
                      disabled |-> disabled_collections], MasterCol)
       IN  /\ scene' = st.sc
           /\ hidden_collections' = st.hidden
           /\ disabled_collections' = st.disabled
    /\ pc' = "unhide_objects"
    /\ UNCHANGED <<topo, undo, kwargs, shared_data, hidden_objects, disabled_objects,
                   root_objects, selection, ri, stack, fbx, result, hist>>

\* line 186
UnhideObjects ==
    /\ pc = "unhide_objects"
    /\ LET st == unhide_objects(
                     [sc |-> scene, hidden |-> hidden_objects, disabled |-> disabled_objects],
                     SelectSeq(Registry, LAMBDA ob : InViewLayer(ob)), 1)
       IN  /\ scene' = st.sc
           /\ hidden_objects' = st.hidden
           /\ disabled_objects' = st.disabled
    /\ pc' = "make_single_user_data"
    /\ UNCHANGED <<topo, undo, kwargs, shared_data, hidden_collections,
                   disabled_collections, root_objects, selection, ri, stack, fbx, result,
                   hist>>

\* line 189
MakeSingleUserData ==
    /\ pc = "make_single_user_data"
    /\ LET st == make_single_user_data([sc |-> scene, shared |-> shared_data], 1)
       IN  /\ scene' = st.sc
           /\ shared_data' = st.shared
    /\ pc' = "apply_object_modifiers"
    /\ UNCHANGED <<topo, undo, kwargs, hidden_collections, hidden_objects,
                   disabled_collections, disabled_objects, root_objects, selection, ri,
                   stack, fbx, result, hist>>

\* line 192
ApplyObjectModifiers ==
    /\ pc = "apply_object_modifiers"
    /\ scene' = apply_object_modifiers(scene)
    /\ pc' = "fix_root"
    /\ UNCHANGED <<topo, undo, kwargs, globals, root_objects, selection, ri, stack, fbx,
                   result, hist>>

\* lines 196..198: the next root, or the end of the loop
FixRoot ==
    /\ pc = "fix_root"
    /\ IF ri <= Len(root_objects)
       THEN /\ stack' = <<[ob |-> root_objects[ri], k |-> 0, mat_original |-> Identity]>>
            /\ ri' = ri + 1
            /\ hist' = [hist EXCEPT !.root = root_objects[ri],
                                    !.preWorld = [o \in Obj |-> World(scene, o)]]
            /\ pc' = "fix_object"
       ELSE /\ pc' = "restore_data"
            /\ UNCHANGED <<stack, ri, hist>>
    /\ UNCHANGED <<topo, scene, undo, kwargs, globals, root_objects, selection, fbx,
                   result>>

\* lines 132..135: the view-layer test and reset_parent_inverse
FixObject ==
    /\ pc = "fix_object"
    /\ IF InViewLayer(Top.ob)
       THEN /\ scene' = reset_parent_inverse(scene, Top.ob)
            /\ hist' = [hist EXCEPT !.fixOrder = Append(@, Top.ob),
                                    !.atFix[Top.ob] = World(scene, Top.ob)]
            /\ pc' = "substitute"
       ELSE /\ pc' = "fix_children"
            /\ UNCHANGED <<scene, hist>>
    /\ UNCHANGED <<topo, undo, kwargs, globals, root_objects, selection, ri, stack, fbx,
                   result>>

\* lines 138..139
Substitute ==
    /\ pc = "substitute"
    /\ stack' = [stack EXCEPT ![Len(stack)].mat_original = Local(scene, Top.ob)]
    /\ scene' = SetLocal(scene, Top.ob, RotationX(-90))
    /\ pc' = "apply_rotation"
    /\ UNCHANGED <<topo, undo, kwargs, globals, root_objects, selection, ri, fbx, result,
                   hist>>

\* What a call of apply_rotation(ob) meets: the payload of ob, the objects that use
\* it, and whether the operator finds ob selected
CommitRecord(sc, ob) ==
    [ob |-> ob,
     data |-> sc.data[ob],
     users |-> IF sc.data[ob] = 0 THEN {} ELSE ObjectUsers(sc, sc.data[ob]),
     effective |-> Visible(sc, ob)]

\* line 142
ApplyRotation ==
    /\ pc = "apply_rotation"
    /\ LET sc1 == SelectSet(DeselectAll(scene), Top.ob)
       IN  IF ApplyRaises(sc1)
           THEN /\ scene' = sc1
                /\ pc' = "except"
           ELSE /\ scene' = apply_rotation(scene, Top.ob)
                /\ pc' = "recompose"
    /\ hist' = [hist EXCEPT
                   !.commits = Append(@, CommitRecord(scene, Top.ob)),
                   !.failedAt = IF ApplyRaises(SelectSet(DeselectAll(scene), Top.ob))
                                THEN pc ELSE @,
                   !.atFail = IF ApplyRaises(SelectSet(DeselectAll(scene), Top.ob))
                              THEN scene ELSE @]
    /\ UNCHANGED <<topo, undo, kwargs, globals, root_objects, selection, ri, stack, fbx,
                   result>>

\* line 145
Recompose ==
    /\ pc = "recompose"
    /\ scene' = SetLocal(scene, Top.ob, MatMul(Top.mat_original, RotationX(90)))
    /\ hist' = [hist EXCEPT !.fixDone = @ \cup {Top.ob}]
    /\ pc' = "fix_children"
    /\ UNCHANGED <<topo, undo, kwargs, globals, root_objects, selection, ri, stack, fbx,
                   result>>

\* the children visited last to first
NextChildReversed(ob, k) == Children(ob)[Len(Children(ob)) - k]

\* for child in ob.children: the child after the k children already visited
NextChild(ob, k) == Children(ob)[k + 1]

\* lines 149..150 moved inside the view-layer test of line 132: the children of
\* an object outside the view layer are not visited
FixChildrenInsideIf ==
    /\ pc = "fix_children"
    /\ IF Top.k < Len(Children(Top.ob)) /\ InViewLayer(Top.ob)
       THEN /\ stack' = Append([stack EXCEPT ![Len(stack)].k = @ + 1],
                               [ob |-> NextChild(Top.ob, Top.k), k |-> 0,
                                mat_original |-> Identity])
            /\ pc' = "fix_object"
       ELSE /\ stack' = SubSeq(stack, 1, Len(stack) - 1)
            /\ pc' = IF Len(stack) = 1 THEN "fix_root" ELSE "fix_children"
    /\ UNCHANGED <<topo, scene, undo, kwargs, globals, root_objects, selection, ri, fbx,
                   result, hist>>

\* lines 149..150: the next child, or the return to the caller
FixChildren ==
    /\ pc = "fix_children"
    /\ IF Top.k < Len(Children(Top.ob))
       THEN /\ stack' = Append([stack EXCEPT ![Len(stack)].k = @ + 1],
                               [ob |-> NextChild(Top.ob, Top.k), k |-> 0,
                                mat_original |-> Identity])
            /\ pc' = "fix_object"
       ELSE /\ stack' = SubSeq(stack, 1, Len(stack) - 1)
            /\ pc' = IF Len(stack) = 1 THEN "fix_root" ELSE "fix_children"
    /\ UNCHANGED <<topo, scene, undo, kwargs, globals, root_objects, selection, ri, fbx,
                   result, hist>>

\* lines 201..205
RestoreData ==
    /\ pc = "restore_data"
    /\ scene' = RestoreShared(scene, shared_data, 1)
    /\ pc' = "restore_visibility"
    /\ UNCHANGED <<topo, undo, kwargs, globals, root_objects, selection, ri, stack, fbx,
                   result, hist>>

\* lines 208..217
RestoreVis ==
    /\ pc = "restore_visibility"
    /\ scene' = RestoreVisibility(scene)
    /\ pc' = "restore_selection"
    /\ UNCHANGED <<topo, undo, kwargs, globals, root_objects, selection, ri, stack, fbx,
                   result, hist>>

\* lines 220..222
RestoreSel ==
    /\ pc = "restore_selection"
    /\ scene' = RestoreSelection(scene)
    /\ pc' = "export_fbx"
    /\ UNCHANGED <<topo, undo, kwargs, globals, root_objects, selection, ri, stack, fbx,
                   result, hist>>

\* lines 226..234: the serializer is handed the scene as it is now
ExportFbx ==
    /\ pc = "export_fbx"
    /\ fbx' = Append(fbx, Params("out.fbx", kwargs))
    /\ hist' = [hist EXCEPT !.exported = TRUE, !.atExport = scene]
    /\ pc' = "finish"
    /\ UNCHANGED <<topo, scene, undo, kwargs, globals, root_objects, selection, ri, stack,
                   result>>

\* lines 247..249 left out: the call returns without restoring the scene
FinishWithoutRollBack ==
    /\ pc = "finish"
    /\ result' = "FINISHED"
    /\ pc' = "done"
    /\ UNCHANGED <<topo, scene, undo, kwargs, globals, root_objects, selection, ri, stack,
                   fbx, hist>>

\* lines 247..251
Finish ==
    /\ pc = "finish"
    /\ scene' = RollBack(undo, scene).scene
    /\ undo' = RollBack(undo, scene).undo
    /\ result' = "FINISHED"
    /\ pc' = "done"
    /\ UNCHANGED <<topo, kwargs, globals, root_objects, selection, ri, stack, fbx, hist>>

\* A host operation of the current step raises an exception: inside the try block
\* the handler takes over, before it the exception leaves export_unity_fbx
Raise ==
    /\ pc \in Protected \cup Unprotected
    /\ IF pc \in Protected
       THEN /\ pc' = "except"
            /\ UNCHANGED result
       ELSE /\ pc' = "done"
            /\ result' = "RAISED"
    /\ hist' = [hist EXCEPT !.failedAt = pc, !.atFail = scene]
    /\ UNCHANGED <<topo, scene, undo, kwargs, globals, root_objects, selection, ri, stack,
                   fbx>>

\* lines 236..243
Except ==
    /\ pc = "except"
    /\ scene' = RollBack(undo, scene).scene
    /\ undo' = RollBack(undo, scene).undo
    /\ result' = "FINISHED"
    /\ pc' = "done"
    /\ UNCHANGED <<topo, kwargs, globals, root_objects, selection, ri, stack, fbx, hist>>

Next ==
    \/ Start
    \/ UnhideCollections
    \/ UnhideObjects
    \/ MakeSingleUserData
    \/ ApplyObjectModifiers
    \/ FixRoot
    \/ FixObject
    \/ Substitute
    \/ ApplyRotation
    \/ Recompose
    \/ FixChildren
    \/ RestoreData
    \/ RestoreVis
    \/ RestoreSel
    \/ ExportFbx
    \/ Finish
    \/ Raise
    \/ Except

(***************************************************************************)
(* Initial states: the scenes and option maps the runs start from          *)
(***************************************************************************)
\* Three rigid transforms that do not commute: a quarter turn about Z, a quarter
\* turn about Y, a mirror of X, each with a translation
Palette ==
    <<Mat(<<0, -1, 0>>, <<1, 0, 0>>, <<0, 0, 1>>, <<1, 0, 2>>),
      Mat(<<0, 0, 1>>, <<0, 1, 0>>, <<-1, 0, 0>>, <<0, 3, 0>>),
      Mat(<<-1, 0, 0>>, <<0, 1, 0>>, <<0, 0, 1>>, <<0, 0, 1>>)>>
Pick(i) == Palette[(i % 3) + 1]

\* Hierarchies: every object is a root or a child of one of the two objects before it
Shapes == {p \in [Obj -> 0..NObj] : \A o \in Obj : p[o] = 0 \/ (p[o] < o /\ p[o] >= o - 2)}

NoModifiers == [o \in Obj |-> <<>>]
Modifier(type, on) == <<[type |-> type, show_viewport |-> on]>>
Payload(fake) == [orient |-> Identity, fake |-> fake, baked |-> FALSE]
NoFlags == [o \in Obj |-> FALSE]
ColShown == <<FALSE, FALSE, FALSE>>

NoKwargs == [key \in {} |-> ""]
Kwargs ==
    {NoKwargs,
     [apply_scale_options |-> "FBX_SCALE_ALL"],
     [apply_scale_options |-> "FBX_SCALE_UNITS"],
     [use_selection |-> "True"],
     [apply_scale_options |-> "FBX_SCALE_NONE", use_selection |-> "True"]}

\* The state between two runs
Idle ==
    /\ pc = "idle"
    /\ undo = [steps |-> <<>>, pos |-> 0]
    /\ shared_data = <<>>
    /\ hidden_collections = <<>>
    /\ hidden_objects = <<>>
    /\ disabled_collections = <<>>
    /\ disabled_objects = <<>>
    /\ root_objects = <<>>
    /\ selection = <<>>
    /\ ri = 1
    /\ stack = <<>>
    /\ fbx = <<>>
    /\ result = "NONE"
    /\ hist = [pre |-> scene, root |-> 0,
               preWorld |-> [o \in Obj |-> Identity], atFix |-> [o \in Obj |-> Identity],
               fixOrder |-> <<>>, fixDone |-> {}, commits |-> <<>>,
               exported |-> FALSE, atExport |-> scene, failedAt |-> "none",
               atFail |-> scene]

\* Scenes for the transform rewriter: any hierarchy, objects with their own
\* payloads and parent inverses, at most one object outside the view layer
\* (collection 2, excluded) and at most one in a hidden collection that lies
\* under the excluded one (collection 3)
InitXf ==
    /\ \E par \in Shapes, out \in 0..NObj, stuck \in 0..2, k1 \in {"MESH", "EMPTY", "CAMERA"} :
        /\ out = 0 \/ out # stuck
        /\ topo = [parent |-> par,
                   col |-> [o \in Obj |-> IF o = out THEN 2 ELSE IF o = stuck THEN 3 ELSE 1],
                   lcParent |-> <<0, 1, 2>>,
                   exclude |-> <<FALSE, TRUE, FALSE>>,
                   active |-> 1]
        /\ scene = [kind |-> [o \in Obj |-> IF o = 1 THEN k1 ELSE "MESH"],
                    basis |-> [o \in Obj |-> Pick(o)],
                    pinv |-> [o \in Obj |-> IF par[o] = 0 THEN Identity ELSE Pick(o + 1)],
                    data |-> [o \in Obj |-> IF o = 1 /\ k1 = "EMPTY" THEN 0 ELSE o],
                    mods |-> NoModifiers,
                    hide |-> NoFlags,
                    hide_viewport |-> NoFlags,
                    sel |-> {},
                    mesh |-> [d \in 1..NObj |-> Payload(FALSE)],
                    lcHide |-> <<FALSE, FALSE, TRUE>>,
                    colHide |-> ColShown]
    /\ kwargs = NoKwargs
    /\ Idle

\* Scenes for the payloads: parentless visible objects that use one of two
\* payloads, with or without an enabled modifier
InitData ==
    /\ \E dat \in [Obj -> {1, 2}], mod \in [Obj -> BOOLEAN], k2 \in {"MESH", "CURVE"} :
        /\ topo = [parent |-> [o \in Obj |-> 0],
                   col |-> [o \in Obj |-> 1],
                   lcParent |-> <<0, 1, 1>>,
                   exclude |-> <<FALSE, FALSE, FALSE>>,
                   active |-> 1]
        /\ scene = [kind |-> [o \in Obj |-> IF dat[o] = 1 THEN "MESH" ELSE k2],
                    basis |-> [o \in Obj |-> Pick(o)],
                    pinv |-> [o \in Obj |-> Identity],
                    data |-> dat,
                    mods |-> [o \in Obj |-> IF mod[o] THEN Modifier("SUBSURF", TRUE)
                                           ELSE <<>>],
                    hide |-> NoFlags,
                    hide_viewport |-> NoFlags,
                    sel |-> {},
                    mesh |-> <<Payload(TRUE), Payload(FALSE)>>,
                    lcHide |-> ColShown,
                    colHide |-> ColShown]
    /\ kwargs = NoKwargs
    /\ Idle

\* The selection flags a scene can hold: only visible objects are selected
Selectable(sc, s) == IF s = 0 THEN TRUE ELSE Visible(sc, s)

\* Scenes for the visibility: two collections under the root or in a chain, every
\* combination of their excluded, hidden and disabled flags, hidden and disabled
\* objects, and a selection
InitVis ==
    /\ \E p3 \in {1, 2}, ex \in [{2, 3} -> BOOLEAN], lh \in [{2, 3} -> BOOLEAN],
          ch \in [{2, 3} -> BOOLEAN], hd \in {<<0, 0>>, <<1, 0>>, <<0, 2>>, <<2, 2>>},
          s \in {0, 1, NObj} :
        /\ topo = [parent |-> [o \in Obj |-> IF o % 2 = 0 THEN o - 1 ELSE 0],
                   col |-> [o \in Obj |-> IF o % 2 = 1 THEN 2 ELSE 3],
                   lcParent |-> <<0, 1, p3>>,
                   exclude |-> <<FALSE, ex[2], ex[3]>>,
                   active |-> 1]
        /\ scene = [kind |-> [o \in Obj |-> "MESH"],
                    basis |-> [o \in Obj |-> Pick(o)],
                    pinv |-> [o \in Obj |-> Identity],
                    data |-> [o \in Obj |-> o],
                    mods |-> NoModifiers,
                    hide |-> [o \in Obj |-> o = hd[1]],
                    hide_viewport |-> [o \in Obj |-> o = hd[2]],
                    sel |-> IF s = 0 THEN {} ELSE {s},
                    mesh |-> [d \in 1..NObj |-> Payload(FALSE)],
                    lcHide |-> <<FALSE, lh[2], lh[3]>>,
                    colHide |-> <<FALSE, ch[2], ch[3]>>]
        /\ Selectable(scene, s)
    /\ kwargs = NoKwargs
    /\ Idle

\* Scenes and option maps for the driver: a chain of three objects and roots
\* beside it, shared payloads, hidden and disabled objects and collections, a
\* selection, and every option map of Kwargs
InitDriver ==
    /\ \E e3 \in BOOLEAN, lh \in BOOLEAN, ch \in BOOLEAN, h \in {0, 2}, d \in {0, 1},
          m \in BOOLEAN, s \in {0, 3} :
        /\ topo = [parent |-> [o \in Obj |-> IF o \in {2, 3} THEN o - 1 ELSE 0],
                   col |-> [o \in Obj |-> IF o = NObj THEN 3 ELSE 2],
                   lcParent |-> <<0, 1, 1>>,
                   exclude |-> <<FALSE, FALSE, e3>>,
                   active |-> 3]
        /\ scene = [kind |-> [o \in Obj |-> "MESH"],
                    basis |-> [o \in Obj |-> Pick(o)],
                    pinv |-> [o \in Obj |-> IF o \in {2, 3} THEN Pick(o + 1) ELSE Identity],
                    data |-> [o \in Obj |-> IF o <= 2 THEN 1 ELSE 2],
                    mods |-> [o \in Obj |-> IF m /\ o = 1 THEN Modifier("SUBSURF", TRUE)
                                           ELSE <<>>],
                    hide |-> [o \in Obj |-> o = h],
                    hide_viewport |-> [o \in Obj |-> o = d],
                    sel |-> IF s = 0 THEN {} ELSE {s},
                    mesh |-> <<Payload(FALSE), Payload(FALSE)>>,
                    lcHide |-> <<FALSE, lh, FALSE>>,
                    colHide |-> <<FALSE, FALSE, ch>>]
        /\ Selectable(scene, s)
    /\ kwargs \in Kwargs
    /\ Idle

\* Modifier stacks: none, an enabled SUBSURF, an enabled ARMATURE, a disabled
\* ARMATURE, a disabled ARMATURE under an enabled SUBSURF
Stacks ==
    {<<>>, Modifier("SUBSURF", TRUE), Modifier("ARMATURE", TRUE), Modifier("ARMATURE", FALSE),
     Modifier("SUBSURF", TRUE) \o Modifier("ARMATURE", FALSE)}

\* Scenes for the modifier baker: parentless objects with every modifier stack
\* of Stacks, a CURVE, a MESH or an EMPTY among them, the last object in the view layer, or
\* outside it (collection 2, excluded), or in a hidden collection under the
\* excluded one (collection 3), and either the first or the last object active
InitMods ==
    /\ \E st \in [1..3 -> Stacks], place \in {1, 2, 3}, k2 \in {"MESH", "CURVE", "EMPTY"},
          act \in {1, NObj} :
        /\ topo = [parent |-> [o \in Obj |-> 0],
                   col |-> [o \in Obj |-> IF o = NObj THEN place ELSE 1],
                   lcParent |-> <<0, 1, 2>>,
                   exclude |-> <<FALSE, TRUE, FALSE>>,
                   active |-> act]
        /\ scene = [kind |-> [o \in Obj |-> IF o = 2 THEN k2 ELSE "MESH"],
                    basis |-> [o \in Obj |-> Pick(o)],
                    pinv |-> [o \in Obj |-> Identity],
                    data |-> [o \in Obj |-> IF o = 2 /\ k2 = "EMPTY" THEN 0 ELSE o],
                    mods |-> [o \in Obj |-> IF o = 2 /\ k2 = "EMPTY" THEN <<>>
                                           ELSE st[(o % 3) + 1]],
                    hide |-> NoFlags,
                    hide_viewport |-> NoFlags,
                    sel |-> {},
                    mesh |-> [d \in 1..NObj |-> Payload(FALSE)],
                    lcHide |-> <<FALSE, FALSE, TRUE>>,
                    colHide |-> ColShown]
    /\ kwargs = NoKwargs
    /\ Idle

Init == InitDriver

Spec == Init /\ [][Next]_vars
SpecXf == InitXf /\ [][Next]_vars
SpecData == InitData /\ [][Next]_vars
SpecMods == InitMods /\ [][Next]_vars
SpecVis == InitVis /\ [][Next]_vars

(***************************************************************************)
(* Properties                                                              *)
(***************************************************************************)
RECURSIVE Ancestors(_)
Ancestors(n) ==
    IF topo.parent[n] = 0 THEN {} ELSE {topo.parent[n]} \cup Ancestors(topo.parent[n])
Descendants(n) == {d \in Obj : n \in Ancestors(d)}
RootOf(n) == CHOOSE r \in Ancestors(n) \cup {n} : topo.parent[r] = 0

\* how many times the fix steps started on n, and whether its commit took effect
FixCount(n) == Cardinality({i \in 1..Len(hist.fixOrder) : hist.fixOrder[i] = n})
Fixed(n) == FixCount(n) > 0
CommitsOf(n) == {i \in 1..Len(hist.commits) : hist.commits[i].ob = n}
Effective(n) == \E i \in CommitsOf(n) : hist.commits[i].effective

\* fix_object(root) has just returned
RootReturned == pc = "fix_root" /\ hist.root # 0
InTree(n) == RootOf(n) = hist.root

\* C1 as claimed: after fix_object has completed on the root, every node of the
\* hierarchy has the world transform it had before fix_object was called.
C1_WorldUnchanged ==
    RootReturned => \A n \in Obj : InTree(n) => World(scene, n) = hist.preWorld[n]

\* C1 as amended: after fix_object has completed on the root, every node on which
\* the fix steps ran has the world transform it had when its steps began composed
\* with a rotation of +90 degrees about X, and an identity parent inverse if it has
\* a parent; when the commit took effect on every fixed ancestor, the world
\* transform it had when its steps began is the one it had before the call; a node
\* on which the steps did not run keeps, under the same condition, its world
\* transform.
AncestorsCommitted(n) == \A a \in Ancestors(n) : Fixed(a) => Effective(a)
C1_WorldTimesPlus90 ==
    RootReturned =>
        \A n \in Obj : InTree(n) =>
            IF Fixed(n)
            THEN /\ World(scene, n) = MatMul(hist.atFix[n], RotationX(90))
                 /\ topo.parent[n] # 0 => scene.pinv[n] = Identity
                 /\ AncestorsCommitted(n) => hist.atFix[n] = hist.preWorld[n]
            ELSE AncestorsCommitted(n) => World(scene, n) = hist.preWorld[n]

\* C1's case: a hierarchy of depth three, every level fixed, the two children
\* with parent inverses that were not the identity
C1_Witness ==
    /\ RootReturned
    /\ \E n \in Obj :
        /\ topo.parent[n] # 0
        /\ topo.parent[topo.parent[n]] = hist.root
        /\ Fixed(n) /\ Fixed(topo.parent[n]) /\ Fixed(hist.root)
        /\ hist.pre.pinv[n] # Identity
        /\ hist.pre.pinv[topo.parent[n]] # Identity

\* The four fix steps ran exactly once on n, or never
StepsOnce(n) == FixCount(n) = 1 /\ n \in hist.fixDone /\ Cardinality(CommitsOf(n)) = 1
StepsNever(n) == FixCount(n) = 0 /\ n \notin hist.fixDone /\ CommitsOf(n) = {}

\* the kind, when root_objects was computed, of the parentless node above n
EligibleRoot(n) == hist.pre.kind[RootOf(n)] \in RootKinds

\* the Transform Rewriter has run on every root without a failure
RewriterDone == pc = "restore_data"

\* C8 as claimed: in one run the fix steps are applied exactly once to every
\* parentless node and to every descendant of one that is in the active view layer,
\* whatever lies between them; never to a node outside the active view layer.
C8_EveryHierarchy ==
    RewriterDone =>
        \A n \in Obj : IF InViewLayer(n) THEN StepsOnce(n) ELSE StepsNever(n)

\* C8 as amended: the fix steps are run exactly once on every node of the active
\* view layer whose parentless ancestor (or itself) is of kind EMPTY, MESH,
\* ARMATURE, FONT, CURVE or SURFACE, whatever lies between them, and never on a node
\* outside the active view layer or below a parentless node of another kind.
C8_EligibleHierarchies ==
    RewriterDone =>
        \A n \in Obj :
            IF InViewLayer(n) /\ EligibleRoot(n) THEN StepsOnce(n) ELSE StepsNever(n)

\* C8's case: a node of the view layer is fixed although its parent is outside it
C8_Witness ==
    /\ RewriterDone
    /\ \E g \in Obj :
        /\ topo.parent[g] # 0
        /\ ~InViewLayer(topo.parent[g])
        /\ InViewLayer(g)
        /\ StepsOnce(g)
        /\ StepsNever(topo.parent[g])
        /\ StepsOnce(RootOf(g))

\* C9: whenever the fix steps start on a node, they have completed on each of its
\* ancestors that is in the active view layer and have not started on any of its
\* descendants; and of two children of one node, the one that comes first in the
\* child list is fixed first.
C9_TopDown ==
    /\ pc = "substitute" =>
        /\ \A a \in Ancestors(Top.ob) : InViewLayer(a) => a \in hist.fixDone
        /\ \A d \in Descendants(Top.ob) : ~Fixed(d)
    /\ \A i, j \in 1..Len(hist.fixOrder) :
        (/\ i < j
         /\ topo.parent[hist.fixOrder[i]] # 0
         /\ topo.parent[hist.fixOrder[i]] = topo.parent[hist.fixOrder[j]])
        => hist.fixOrder[i] < hist.fixOrder[j]

\* C9's case: the steps start on a node that has a fixed ancestor, a fixed elder
\* sibling and a descendant
C9_Witness ==
    /\ pc = "substitute"
    /\ \E a \in Ancestors(Top.ob) : InViewLayer(a)
    /\ Descendants(Top.ob) # {}
    /\ \E b \in Obj : b < Top.ob /\ topo.parent[b] = topo.parent[Top.ob] /\ Fixed(b)

\* the run has returned, or the exception has left it
Returned == pc = "done"

\* C2: when a failure is raised inside the try block, export_unity_fbx returns
\* 'FINISHED' and the scene (every local and parent-inverse matrix, hence every
\* world matrix, every payload reference, every hidden or disabled flag of objects
\* and collections, the selection) is what it was when the run began.
C2_RollBackOnFailure ==
    (Returned /\ hist.failedAt \in Protected) =>
        /\ result = "FINISHED"
        /\ scene = hist.pre
        /\ \A ob \in Obj : World(scene, ob) = World(hist.pre, ob)

\* C2's case: the failure came between the commit and the recomposition of a node,
\* with matrices, payloads and collection flags already changed
C2_Witness ==
    /\ Returned
    /\ hist.failedAt = "recompose"
    /\ hist.atFail.basis # hist.pre.basis
    /\ hist.atFail.data # hist.pre.data
    /\ hist.atFail.lcHide # hist.pre.lcHide
    /\ \E ob \in Obj : World(hist.atFail, ob) # World(hist.pre, ob)

\* C3 as claimed: a failure raised at any step of the run, in any component, is
\* caught: the call returns 'FINISHED' and the scene is what it was when the run
\* began.
C3_AnyFailureRolledBack ==
    (Returned /\ hist.failedAt # "none") => (result = "FINISHED" /\ scene = hist.pre)

\* C4: the snapshot is taken before the scene is changed; on a run without
\* failure the serializer is invoked exactly once and, after the call has
\* returned, the scene is the snapshot.
C4_SuccessRestores ==
    /\ pc # "idle" => (undo.steps[1] = hist.pre /\ Len(fbx) <= 1)
    /\ pc = "unhide_collections" => scene = hist.pre
    /\ (Returned /\ hist.failedAt = "none") =>
        /\ result = "FINISHED"
        /\ Len(fbx) = 1
        /\ scene = undo.steps[1]
        /\ \A ob \in Obj : World(scene, ob) = World(hist.pre, ob)

\* C4's case: a run without failure whose serializer saw a scene with other
\* matrices, payloads and modifier stacks than the snapshot
C4_Witness ==
    /\ Returned
    /\ hist.failedAt = "none"
    /\ hist.exported
    /\ hist.atExport.basis # hist.pre.basis
    /\ hist.atExport.mesh # hist.pre.mesh
    /\ hist.atExport.mods # hist.pre.mods
    /\ hist.pre.sel # {}

\* C5: the serializer receives the destination path and, for every key the caller
\* supplies, the caller's value, the unit-scaling mode included; the unit-scaling
\* mode comes from the default, FBX_SCALE_UNITS, when the caller does not supply it.
C5_OverlayPrecedence ==
    hist.exported =>
        /\ Len(fbx) = 1
        /\ DOMAIN fbx[1] = {"filepath", "apply_scale_options"} \cup DOMAIN kwargs
        /\ fbx[1]["filepath"] = "out.fbx"
        /\ \A key \in DOMAIN kwargs : fbx[1][key] = kwargs[key]
        /\ "apply_scale_options" \notin DOMAIN kwargs
               => fbx[1]["apply_scale_options"] = "FBX_SCALE_UNITS"

\* C5's case: the caller supplies a unit-scaling mode that is not the default
C5_Witness ==
    /\ hist.exported
    /\ "apply_scale_options" \in DOMAIN kwargs
    /\ kwargs["apply_scale_options"] # "FBX_SCALE_UNITS"
    /\ fbx[1]["apply_scale_options"] = kwargs["apply_scale_options"]

\* the MESH nodes that referenced payload d when the run began
Sharers(d) == {n \in Obj : hist.pre.data[n] = d /\ hist.pre.kind[n] = "MESH"}
HadModifier(n) == EnabledModifiers(hist.pre, n) > 0

\* C6 as claimed: of the MESH nodes that referenced one payload before the run,
\* two or more, either none had an enabled modifier and all reference one payload
\* when the serializer is invoked, or one had and no two of them reference the same
\* payload.
C6_RemergeOrNone ==
    hist.exported =>
        \A d \in DOMAIN hist.pre.mesh :
            Cardinality(Sharers(d)) >= 2 =>
                IF \A n \in Sharers(d) : ~HadModifier(n)
                THEN \A a, b \in Sharers(d) : hist.atExport.data[a] = hist.atExport.data[b]
                ELSE \A a, b \in Sharers(d) :
                         a # b => hist.atExport.data[a] # hist.atExport.data[b]

\* C7: in a run without failure every hidden and disabled flag of every object and
\* collection, and the selection, are at the moment the serializer is invoked what
\* they were before the run.
C7_VisibilityRoundTrip ==
    hist.exported =>
        /\ hist.atExport.hide = hist.pre.hide
        /\ hist.atExport.hide_viewport = hist.pre.hide_viewport
        /\ hist.atExport.lcHide = hist.pre.lcHide
        /\ hist.atExport.colHide = hist.pre.colHide
        /\ hist.atExport.sel = hist.pre.sel

\* C7's case: an object and a collection were force-shown from hidden and from
\* disabled, and an object was selected
C7_Witness ==
    /\ hist.exported
    /\ hidden_collections # <<>>
    /\ disabled_collections # <<>>
    /\ hidden_objects # <<>>
    /\ disabled_objects # <<>>
    /\ hist.pre.sel # {}

\* from the return of make_single_user_data to the restoration of line 201
Uniquified == pc \in {"apply_object_modifiers", "fix_root", "fix_object", "substitute",
                      "apply_rotation", "recompose", "fix_children", "restore_data"}

\* C10: once make_single_user_data has returned no payload is referenced by two
\* nodes, and at every call of apply_rotation the payload of the node is referenced
\* by that node alone.
C10_PrivateAtCommit ==
    /\ Uniquified =>
        \A a, b \in Obj : (a # b /\ scene.data[a] # 0) => scene.data[a] # scene.data[b]
    /\ \A i \in 1..Len(hist.commits) :
        hist.commits[i].data # 0 => hist.commits[i].users = {hist.commits[i].ob}

\* C10's case: a rotation is committed to a CURVE node that shared its payload with
\* two other nodes before the run, and to a MESH node
C10_Witness ==
    /\ \E i \in 1..Len(hist.commits) :
        /\ hist.pre.kind[hist.commits[i].ob] = "CURVE"
        /\ Cardinality(ObjectUsers(hist.pre, hist.pre.data[hist.commits[i].ob])) >= 3
        /\ hist.commits[i].users = {hist.commits[i].ob}
    /\ \E i \in 1..Len(hist.commits) :
        /\ hist.pre.kind[hist.commits[i].ob] = "MESH"
        /\ hist.commits[i].data # 0

\* how many calls of apply_rotation acted on payload d, and what one such call
\* leaves in a payload: the X-90 rotation of line 139
CommitCount(d) ==
    Cardinality({i \in 1..Len(hist.commits) :
                    hist.commits[i].data = d /\ hist.commits[i].effective})
CommittedOnce(sc, d) == CommitCount(d) = 1 /\ sc.mesh[d].orient = RotationX(-90)

\* C11 as claimed: when the serializer is invoked, the payload of every node on
\* which the fix steps ran has had the rotation committed to it exactly once in
\* the run, a payload re-assigned by the restoration included.
C11_ProcessedOnce ==
    hist.exported =>
        \A n \in Obj :
            (Fixed(n) /\ hist.atExport.data[n] # 0) =>
                CommittedOnce(hist.atExport, hist.atExport.data[n])

\* apply_object_modifiers has just returned
JustBaked == pc = "fix_root" /\ ri = 1 /\ hist.root = 0

\* what the modifier stack of n held before the run
HadArmature(n) ==
    \E i \in DOMAIN hist.pre.mods[n] : hist.pre.mods[n][i].type = "ARMATURE"
HadEnabledArmature(n) ==
    \E i \in DOMAIN hist.pre.mods[n] :
        hist.pre.mods[n][i].type = "ARMATURE" /\ hist.pre.mods[n][i].show_viewport

\* n is as it was before the run: its kind, its modifier stack, its payload unbaked
Unconverted(n) ==
    /\ scene.kind[n] = hist.pre.kind[n]
    /\ scene.mods[n] = hist.pre.mods[n]
    /\ scene.data[n] # 0 => ~scene.mesh[scene.data[n]].baked

\* n is a mesh without modifiers whose payload holds the result of its stack
Converted(n) ==
    /\ scene.kind[n] = "MESH"
    /\ scene.mods[n] = <<>>
    /\ scene.data[n] # 0 /\ scene.mesh[scene.data[n]].baked

\* C12 as claimed: apply_object_modifiers selects exactly the view-layer nodes
\* without an enabled ARMATURE modifier; nodes with one, and nodes outside the view
\* layer, are left unselected and unconverted.
C12_NoEnabledArmature ==
    JustBaked =>
        /\ scene.sel = {n \in Obj : InViewLayer(n) /\ ~HadEnabledArmature(n)}
        /\ \A n \in Obj : (HadEnabledArmature(n) \/ ~InViewLayer(n)) =>
               (n \notin scene.sel /\ Unconverted(n))

\* C12, amended: apply_object_modifiers selects exactly the visible view-layer
\* nodes without any ARMATURE modifier, enabled or not; every other node is left
\* unselected and unconverted; the selected nodes that hold geometry are converted
\* when the active object is among the selected and has a payload, and every
\* selected node is left unconverted otherwise.
C12_NoArmatureAtAll ==
    JustBaked =>
        /\ scene.sel = {n \in Obj : InViewLayer(n) /\ Visible(scene, n) /\ ~HadArmature(n)}
        /\ \A n \in Obj : n \notin scene.sel => Unconverted(n)
        /\ \A n \in scene.sel :
               IF /\ topo.active \in scene.sel /\ hist.pre.data[topo.active] # 0
                  /\ hist.pre.kind[n] \in GeometryKinds
               THEN Converted(n)
               ELSE Unconverted(n)

\* C12's case: of the view-layer nodes one with a disabled ARMATURE modifier
\* under an enabled SUBSURF is left as it was and a CURVE with an enabled SUBSURF
\* is converted
C12_Witness ==
    /\ JustBaked
    /\ \E n \in Obj :
        /\ InViewLayer(n) /\ HadArmature(n) /\ ~HadEnabledArmature(n)
        /\ Len(hist.pre.mods[n]) = 2
        /\ n \notin scene.sel /\ Unconverted(n)
    /\ \E n \in Obj :
        /\ hist.pre.kind[n] = "CURVE" /\ hist.pre.mods[n] # <<>>
        /\ n \in scene.sel /\ Converted(n)

\* unhide_collections and unhide_objects have just returned
JustUnhidden == pc = "make_single_user_data"

\* C13 as claimed: after unhide_collections and unhide_objects every collection
\* that is not excluded is neither hidden nor disabled, every object of the view
\* layer is neither hidden nor disabled, and no flag of an excluded collection
\* has changed.
C13_UnifierCoverage ==
    JustUnhidden =>
        /\ \A c \in Col : ~topo.exclude[c] => (~scene.lcHide[c] /\ ~scene.colHide[c])
        /\ \A ob \in Obj : InViewLayer(ob) => (~scene.hide[ob] /\ ~scene.hide_viewport[ob])
        /\ \A c \in Col : topo.exclude[c] =>
               (scene.lcHide[c] = hist.pre.lcHide[c] /\ scene.colHide[c] = hist.pre.colHide[c])

====
